---- MODULE Spec2Model ----
(***************************************************************************)
(* Model of qubovert's PUBO class (src/qubovert/_pubo.py): building a      *)
(* polynomial over arbitrary labels, lowering it to a QUBO with ancilla    *)
(* variables (to_qubo), relabeling it (to_pubo) and translating solutions  *)
(* back (convert_solution).                                                *)
(*                                                                         *)
(* Coefficients are integers.  Variable indices are the integers 0..n-1   *)
(* as in the code; a key is a sequence of labels (PUBO) or of indices      *)
(* (PUBOMatrix / QUBOMatrix).  A dict is modelled as a function from its   *)
(* keys to their values, except the PUBO itself, whose iteration order     *)
(* to_qubo depends on: it is a sequence of <<key, value>> in insertion     *)
(* order.                                                                  *)
(***************************************************************************)
EXTENDS Integers, Sequences, FiniteSets, TLC

VARIABLES
    D,          \* the PUBO: sequence of <<key, value>>, insertion order
    rmap,       \* _reverse_mapping: rmap[i+1] is the label of index i
    nacc,       \* number of item assignments made so far
    pc,         \* "build" | "for" | "while" | "done" | "raised" | "pubo" | "converted"
    lam,        \* to_qubo's lam argument: 0 is None, c > 0 the function v |-> c
    ti,         \* position of the for loop of to_qubo in D
    k,          \* to_qubo's local k
    Q,          \* to_qubo's local Q (a QUBOMatrix)
    ancilla,    \* to_qubo's local ancilla (next available label)
    reductions, \* to_qubo's local reductions: <<x, y>> -> z
    P,          \* result of to_pubo (a PUBOMatrix)
    solution,   \* argument of convert_solution: solution[i+1] is the value of index i
    res,        \* result of convert_solution: label -> {0, 1}
    poly,       \* a polynomial container handed to accumulate or to a converter
    ptype,      \* the class of poly: "QUBOMatrix", "PUBO", "HIsingMatrix", ...
    cnt,        \* number of accumulations made into poly
    lastKey,    \* the raw key of the last accumulation into poly
    lastVal,    \* the value of the last accumulation into poly
    rejected,   \* whether the last accumulation raised
    conv,       \* the converters applied so far: <<"qubo_to_ising", ...>>
    out,        \* the result of the converter
    otype,      \* the class of out
    back,       \* the result of the opposite converter applied to out
    cpc,        \* "idle" | "acc" | "converted" | "back" | "raised"
    kept,       \* the outcomes of finished to_qubo calls, kept by their callers
    other,      \* a second PUBO instance and the to_qubo call of a second thread on it
    mixed       \* whether the running call was suspended between two of its steps

\* the state of the PUBO and of its to_qubo / to_pubo / convert_solution
pvars == <<D, rmap, nacc, pc, lam, ti, k, Q, ancilla, reductions, P, solution, res>>

\* the state of the containers and converters of utils/_conversions.py
cvars == <<poly, ptype, cnt, lastKey, lastVal, rejected, conv, out, otype, back, cpc>>

\* the callers of to_qubo: results kept, and the thread that is not running
tvars == <<kept, other, mixed>>

vars == <<pvars, cvars, tvars>>

----------------------------------------------------------------------------
(* Bounds of the model.                                                    *)

\* number of item assignments made while building the PUBO
MaxTerms == 2
\* length of the raw keys given to an item assignment
MaxRawLen == 4
\* largest constant penalty weight passed to to_qubo
MaxLam == 1
\* longest assignment handed to convert_solution
MaxSolLen == 4

\* The labels of the variables, in the order their hashes sort them: the
\* string 'a' and the integers 0, 1, 2 of the class's examples (the integer
\* labels are written as strings, so that all labels are of one kind).
LabelList == <<"a", "0", "1", "2">>
Labels == {LabelList[i] : i \in 1..Len(LabelList)}
\* The coefficients added by one item assignment.
Values == {-1, 1}

----------------------------------------------------------------------------
(* Helpers on sequences and dicts.                                         *)

Range(s) == {s[i] : i \in 1..Len(s)}

Abs(x) == IF x < 0 THEN -x ELSE x

RECURSIVE SortedInts(_)
\* sorted(S) for a set of integers
SortedInts(S) ==
    IF S = {} THEN <<>>
    ELSE LET m == CHOOSE x \in S : \A y \in S : x <= y
         IN <<m>> \o SortedInts(S \ {m})

Rank(l) == CHOOSE i \in 1..Len(LabelList) : LabelList[i] = l

RECURSIVE sorted(_)
\* sorted(s) for a sequence of integers (duplicates are kept)
sorted(s) ==
    IF s = <<>> THEN <<>>
    ELSE LET i == CHOOSE a \in 1..Len(s) : \A b \in 1..Len(s) : s[a] <= s[b]
         IN <<s[i]>> \o sorted(SubSeq(s, 1, i - 1) \o SubSeq(s, i + 1, Len(s)))

RECURSIVE SortedLabels(_)
\* the labels of S in hash order
SortedLabels(S) ==
    IF S = {} THEN <<>>
    ELSE LET m == CHOOSE x \in S : \A y \in S : Rank(x) <= Rank(y)
         IN <<m>> \o SortedLabels(S \ {m})

EmptyDict == <<>>

\* d with key kk bound to val (val # 0), or with kk removed (val = 0)
DictSet(d, kk, val) ==
    IF val = 0
    THEN [x \in DOMAIN d \ {kk} |-> d[x]]
    ELSE [x \in DOMAIN d \cup {kk} |-> IF x = kk THEN val ELSE d[x]]

DictGet(d, kk) == IF kk \in DOMAIN d THEN d[kk] ELSE 0

----------------------------------------------------------------------------
(* The containers: PUBOMatrix / QUBOMatrix (integer keys) and the PUBO     *)
(* with its label mapping.  Their classes (PUBOMatrix, QUBOMatrix, BO) are *)
(* not part of the sources at hand; they are modelled from the             *)
(* specification: a key is canonicalized to its sorted distinct labels,    *)
(* a coefficient that becomes zero is removed, and labels get the indices  *)
(* 0, 1, 2, ... in the order they are first seen.                          *)

\* PUBOMatrix.squash_key: the sorted distinct indices of the key
squash_key(key) == SortedInts(Range(key))

\* M[key] += v on a PUBOMatrix or QUBOMatrix: canonical key, zero removed
MatrixAdd(M, key, v) ==
    LET kk == squash_key(key)
    IN DictSet(M, kk, DictGet(M, kk) + v)

\* PUBO.squash_key: the distinct labels of the key, sorted by hash
squash_label_key(key) == SortedLabels(Range(key))

\* position of key kk in the PUBO's item sequence, 0 if absent
PosOf(d, kk) ==
    IF \E i \in 1..Len(d) : d[i][1] = kk
    THEN CHOOSE i \in 1..Len(d) : d[i][1] = kk
    ELSE 0

\* the PUBO's items after  D[raw] += v
PuboAdd(d, raw, v) ==
    LET kk  == squash_label_key(raw)
        i   == PosOf(d, kk)
        new == (IF i = 0 THEN 0 ELSE d[i][2]) + v
    IN IF i = 0
       THEN IF new = 0 THEN d ELSE Append(d, <<kk, new>>)
       ELSE IF new = 0
            THEN SubSeq(d, 1, i - 1) \o SubSeq(d, i + 1, Len(d))
            ELSE [d EXCEPT ![i] = <<kk, new>>]

RECURSIVE AssignAllAlways(_, _)
\* a mapper that binds every label of key to a new index, seen or not
AssignAllAlways(rm, key) ==
    IF key = <<>> THEN rm
    ELSE AssignAllAlways(Append(rm, Head(key)), Tail(key))

RECURSIVE AssignAll(_, _)
\* the reverse mapping after every label of key, in order, has been given
\* the next unused index unless it already has one
AssignAll(rm, key) ==
    IF key = <<>> THEN rm
    ELSE AssignAll(IF Head(key) \in Range(rm) THEN rm ELSE Append(rm, Head(key)),
                   Tail(key))

\* self._mapping[l]
mapping(l) == (CHOOSE i \in 1..Len(rmap) : rmap[i] = l) - 1

\* self._reverse_mapping[i]
reverse_mapping(i) == rmap[i + 1]

\* self.num_binary_variables
num_binary_variables == Len(rmap)

----------------------------------------------------------------------------
(* _pubo.py                                                                *)

\* the block with 2 * lam for 3 * lam on (z,)
constraint_weak_z(x, y, z, l) ==
    << <<(<<z>>), 2 * l>>, <<(<<x, y>>), l>>,
       <<(<<x, z>>), -2 * l>>, <<(<<y, z>>), -2 * l>> >>

\* the block with -lam for -2 * lam on (x, z)
constraint_weak_xz(x, y, z, l) ==
    << <<(<<z>>), 3 * l>>, <<(<<x, y>>), l>>,
       <<(<<x, z>>), -l>>, <<(<<y, z>>), -2 * l>> >>

\* _constraint_xy_eq_z(x, y, z, lam): the items of the returned dict in order
constraint_xy_eq_z(x, y, z, l) ==
    << <<(<<z>>), 3 * l>>, <<(<<x, y>>), l>>,
       <<(<<x, z>>), -2 * l>>, <<(<<y, z>>), -2 * l>> >>

\* abs(v) - 1 for 1 + abs(v)
default_lam_below(val) == Abs(val) - 1

\* 1 - abs(v) for 1 + abs(v)
default_lam_minus(val) == 1 - Abs(val)

\* PUBO.default_lam
default_lam(val) == 1 + Abs(val)

\* the weight lam(v) used by to_qubo for its lam argument l
LamOf(l, val) == IF l = 0 THEN default_lam(val) ELSE l

RECURSIVE MatrixAddAll(_, _)
\* M += items
MatrixAddAll(M, items) ==
    IF items = <<>> THEN M
    ELSE MatrixAddAll(MatrixAdd(M, Head(items)[1], Head(items)[2]), Tail(items))

\* a scan that never finds a registered pair
RegisteredNever(kk, red) == {}

\* the positions <<i, j>>, i < j, of the pairs of kk that are in reductions
RegisteredAt(kk, red) ==
    {ij \in (1..Len(kk)) \X (1..Len(kk)) :
        ij[1] < ij[2] /\ <<kk[ij[1]], kk[ij[2]]>> \in DOMAIN red}

\* the last registered pair in scan order
LastRegistered(kk, red) ==
    LET S  == RegisteredAt(kk, red)
        ij == CHOOSE a \in S : \A b \in S :
                  b[1] < a[1] \/ (b[1] = a[1] /\ b[2] <= a[2])
    IN <<kk[ij[1]], kk[ij[2]]>>

\* the pair the double for loop of to_qubo stops at: the first in scan order
FirstRegistered(kk, red) ==
    LET S  == RegisteredAt(kk, red)
        ij == CHOOSE a \in S : \A b \in S :
                  a[1] < b[1] \/ (a[1] = b[1] /\ a[2] <= b[2])
    IN <<kk[ij[1]], kk[ij[2]]>>

\* the key with x alone removed
WithoutFirst(kk, x, y) == SelectSeq(kk, LAMBDA i : i # x)

\* tuple(i for i in kk if i not in (x, y))
Without(kk, x, y) == SelectSeq(kk, LAMBDA i : i # x /\ i # y)

\* the mapped key without its last label
MapKeyShort(kp) == [i \in 1..(Len(kp) - 1) |-> mapping(kp[i])]

\* tuple(self._mapping[i] for i in kp)
MapKey(kp) == [i \in 1..Len(kp) |-> mapping(kp[i])]

\* key = tuple(sorted(self._mapping[i] for i in kp))
MappedKey(kp) == sorted(MapKey(kp))

RECURSIVE AddMapped(_, _)
\* the loop of to_pubo over the items d: P[key] += v
AddMapped(M, d) ==
    IF d = <<>> THEN M
    ELSE AddMapped(MatrixAdd(M, MapKey(Head(d)[1]), Head(d)[2]), Tail(d))

\* the set of assignments of length m with values in vals
Assignments(m, vals) == [1..m -> vals]

\* convert_solution reading the solution from its end
convert_solution_reversed(s) ==
    [l \in {reverse_mapping(i) : i \in 0..(num_binary_variables - 1)} |->
        IF s[Len(s) - mapping(l)] = 1 THEN 1 ELSE 0]

\* convert_solution taking every value other than 0 for 1
convert_solution_nonzero(s) ==
    [l \in {reverse_mapping(i) : i \in 0..(num_binary_variables - 1)} |->
        IF s[mapping(l) + 1] = 0 THEN 0 ELSE 1]

\* convert_solution with the two results exchanged
convert_solution_inverted(s) ==
    [l \in {reverse_mapping(i) : i \in 0..(num_binary_variables - 1)} |->
        IF s[mapping(l) + 1] = 1 THEN 0 ELSE 1]

\* convert_solution(solution): lines 353-356
convert_solution(s) ==
    [l \in {reverse_mapping(i) : i \in 0..(num_binary_variables - 1)} |->
        IF s[mapping(l) + 1] = 1 THEN 1 ELSE 0]

\* the containers and converters are not in use
ConvIdle ==
    /\ poly = <<>>
    /\ ptype = ""
    /\ cnt = 0
    /\ lastKey = <<>>
    /\ lastVal = 0
    /\ rejected = FALSE
    /\ conv = <<>>
    /\ out = <<>>
    /\ otype = ""
    /\ back = <<>>
    /\ cpc = "idle"

\* no second thread
NoFrame ==
    [D |-> <<>>, rmap |-> <<>>, nacc |-> 0, pc |-> "none", lam |-> 0, ti |-> 0,
     k |-> <<>>, Q |-> EmptyDict, ancilla |-> 0, reductions |-> EmptyDict,
     mixed |-> FALSE]

\* one thread, which has kept no result
CallerIdle ==
    /\ kept = <<>>
    /\ other = NoFrame
    /\ mixed = FALSE

Init ==
    /\ D = <<>>
    /\ rmap = <<>>
    /\ nacc = 0
    /\ pc = "build"
    /\ lam = 0
    /\ ti = 0
    /\ k = <<>>
    /\ Q = EmptyDict
    /\ ancilla = 0
    /\ reductions = EmptyDict
    /\ P = EmptyDict
    /\ solution = <<>>
    /\ res = EmptyDict
    /\ ConvIdle
    /\ CallerIdle

RawKeys == UNION {[1..m -> Labels] : m \in 0..MaxRawLen}

\* pubo[raw] += val
SetItem(raw, val) ==
    /\ pc = "build"
    /\ nacc < MaxTerms
    /\ nacc' = nacc + 1
    /\ D' = PuboAdd(D, raw, val)
    /\ rmap' = AssignAll(rmap, squash_label_key(raw))
    /\ UNCHANGED <<pc, lam, ti, k, Q, ancilla, reductions, P, solution, res>>
    /\ UNCHANGED <<cvars, tvars>>

\* to_qubo with a registry and a counter that outlive the call
ToQuboCallStale(l) ==
    /\ pc = "build"
    /\ pc' = "for"
    /\ lam' = l
    /\ Q' = EmptyDict
    /\ ancilla' = IF ancilla = 0 THEN num_binary_variables ELSE ancilla
    /\ reductions' = reductions
    /\ ti' = 1
    /\ UNCHANGED <<D, rmap, nacc, k, P, solution, res>>
    /\ UNCHANGED <<cvars, tvars>>

\* to_qubo is called: lines 237-244
ToQuboCall(l) ==
    /\ pc = "build"
    /\ pc' = "for"
    /\ lam' = l
    /\ Q' = EmptyDict
    /\ ancilla' = num_binary_variables
    /\ reductions' = EmptyDict
    /\ ti' = 1
    /\ UNCHANGED <<D, rmap, nacc, k, P, solution, res>>
    /\ UNCHANGED <<cvars, tvars>>

\* the for loop takes a term whose key is in reductions, lines 248-251:
\* Q[reductions[key]] += v indexes the QUBOMatrix with the ancilla, an integer
\* and no tuple, which the matrix rejects with KeyError (as it rejects the key
\* 0 in tests/utils/test_pubomatrix.py, test_pubo_checkkey); to_qubo raises
TermRegistered ==
    /\ pc = "for"
    /\ ti <= Len(D)
    /\ MappedKey(D[ti][1]) \in DOMAIN reductions
    /\ pc' = "raised"
    /\ UNCHANGED <<D, rmap, nacc, lam, ti, k, Q, ancilla, reductions, P, solution, res>>
    /\ UNCHANGED <<cvars, tvars>>

\* the for loop takes a term of at most two variables whose key is not in
\* reductions: the while loop is skipped and Q[k] += v, lines 248-255 and 287
TermDirect ==
    /\ pc = "for"
    /\ ti <= Len(D)
    /\ MappedKey(D[ti][1]) \notin DOMAIN reductions
    /\ ~(Len(MappedKey(D[ti][1])) > 2)
    /\ k' = MappedKey(D[ti][1])
    /\ Q' = MatrixAdd(Q, MappedKey(D[ti][1]), D[ti][2])
    /\ ti' = ti + 1
    /\ UNCHANGED <<D, rmap, nacc, pc, lam, ancilla, reductions, P, solution, res>>
    /\ UNCHANGED <<cvars, tvars>>

\* the for loop takes a term of more than two variables: the while loop is
\* entered, lines 248-255
TermBegin ==
    /\ pc = "for"
    /\ ti <= Len(D)
    /\ MappedKey(D[ti][1]) \notin DOMAIN reductions
    /\ Len(MappedKey(D[ti][1])) > 2
    /\ k' = MappedKey(D[ti][1])
    /\ pc' = "while"
    /\ UNCHANGED <<D, rmap, nacc, lam, ti, Q, ancilla, reductions, P, solution, res>>
    /\ UNCHANGED <<cvars, tvars>>

\* an iteration of the while loop that adds the constraint only when it
\* registers the pair
ReduceDedup ==
    /\ pc = "while"
    /\ Len(k) > 2
    /\ LET found == RegisteredAt(k, reductions) # {}
           xy    == IF found THEN FirstRegistered(k, reductions) ELSE <<k[1], k[2]>>
           x     == xy[1]
           y     == xy[2]
           z     == IF found THEN reductions[xy] ELSE ancilla
       IN /\ reductions' = IF found THEN reductions
                           ELSE [p \in DOMAIN reductions \cup {xy} |->
                                    IF p = xy THEN z ELSE reductions[p]]
          /\ ancilla' = IF found THEN ancilla ELSE ancilla + 1
          /\ Q' = IF found THEN Q
                  ELSE MatrixAddAll(Q, constraint_xy_eq_z(x, y, z, LamOf(lam, D[ti][2])))
          /\ k' = sorted(Without(k, x, y) \o <<z>>)
    /\ UNCHANGED <<D, rmap, nacc, pc, lam, ti, P, solution, res>>
    /\ UNCHANGED <<cvars, tvars>>

\* one iteration of the while loop: lines 255-286
Reduce ==
    /\ pc = "while"
    /\ Len(k) > 2
    /\ LET found == RegisteredAt(k, reductions) # {}
           xy    == IF found THEN FirstRegistered(k, reductions) ELSE <<k[1], k[2]>>
           x     == xy[1]
           y     == xy[2]
           z     == IF found THEN reductions[xy] ELSE ancilla
       IN /\ reductions' = IF found THEN reductions
                           ELSE [p \in DOMAIN reductions \cup {xy} |->
                                    IF p = xy THEN z ELSE reductions[p]]
          /\ ancilla' = IF found THEN ancilla ELSE ancilla + 1
          /\ Q' = MatrixAddAll(Q, constraint_xy_eq_z(x, y, z, LamOf(lam, D[ti][2])))
          /\ k' = sorted(Without(k, x, y) \o <<z>>)
    /\ UNCHANGED <<D, rmap, nacc, pc, lam, ti, P, solution, res>>
    /\ UNCHANGED <<cvars, tvars>>

\* the while loop ends and the coefficient is added at key, not at k
TermEndAtKey ==
    /\ pc = "while"
    /\ ~(Len(k) > 2)
    /\ Q' = MatrixAdd(Q, MappedKey(D[ti][1]), D[ti][2])
    /\ ti' = ti + 1
    /\ pc' = "for"
    /\ UNCHANGED <<D, rmap, nacc, lam, k, ancilla, reductions, P, solution, res>>
    /\ UNCHANGED <<cvars, tvars>>

\* the while loop ends: Q[k] += v, line 287
TermEnd ==
    /\ pc = "while"
    /\ ~(Len(k) > 2)
    /\ Q' = MatrixAdd(Q, k, D[ti][2])
    /\ ti' = ti + 1
    /\ pc' = "for"
    /\ UNCHANGED <<D, rmap, nacc, lam, k, ancilla, reductions, P, solution, res>>
    /\ UNCHANGED <<cvars, tvars>>

\* the for loop is exhausted: return Q, line 289
Return ==
    /\ pc = "for"
    /\ ti > Len(D)
    /\ pc' = "done"
    /\ UNCHANGED <<D, rmap, nacc, lam, ti, k, Q, ancilla, reductions, P, solution, res>>
    /\ UNCHANGED <<cvars, tvars>>

\* to_pubo(): lines 177-183
ToPubo ==
    /\ pc = "build"
    /\ P' = AddMapped(EmptyDict, D)
    /\ pc' = "pubo"
    /\ UNCHANGED <<D, rmap, nacc, lam, ti, k, Q, ancilla, reductions, solution, res>>
    /\ UNCHANGED <<cvars, tvars>>

\* convert_solution(s) on an assignment of the QUBO's variables, binary or spin
ConvertSolution(s) ==
    /\ pc = "done"
    /\ Len(s) = ancilla
    /\ solution' = s
    /\ res' = convert_solution(s)
    /\ pc' = "converted"
    /\ UNCHANGED <<D, rmap, nacc, lam, ti, k, Q, ancilla, reductions, P>>
    /\ UNCHANGED <<cvars, tvars>>

\* the assignments a solver of the QUBO (values 0, 1) or of the Ising
\* formulation (values -1, 1) hands back
Solutions ==
    UNION {Assignments(m, {0, 1}) \cup Assignments(m, {-1, 1}) : m \in 0..MaxSolLen}

Next ==
    \/ \E raw \in RawKeys, val \in Values : SetItem(raw, val)
    \/ \E l \in 0..MaxLam : ToQuboCall(l)
    \/ TermRegistered
    \/ TermDirect
    \/ TermBegin
    \/ Reduce
    \/ TermEnd
    \/ Return
    \/ ToPubo
    \/ \E s \in Solutions : ConvertSolution(s)

Spec == Init /\ [][Next]_vars

----------------------------------------------------------------------------
(* Values of polynomials, used to state the properties.                    *)

RECURSIVE Product(_, _)
\* the product of the values s gives to the indices of key
Product(key, s) ==
    IF key = <<>> THEN 1 ELSE s[Head(key) + 1] * Product(Tail(key), s)

RECURSIVE SumOver(_, _, _)
SumOver(M, keys, s) ==
    IF keys = {} THEN 0
    ELSE LET kk == CHOOSE x \in keys : TRUE
         IN M[kk] * Product(kk, s) + SumOver(M, keys \ {kk}, s)

\* the value of the matrix M at the assignment s of its indices
Value(M, s) == SumOver(M, DOMAIN M, s)

RECURSIVE LabelProduct(_, _)
LabelProduct(key, a) ==
    IF key = <<>> THEN 1 ELSE a[Head(key)] * LabelProduct(Tail(key), a)

RECURSIVE PuboValue(_, _)
\* the value of the PUBO with items d at the assignment a of its labels
PuboValue(d, a) ==
    IF d = <<>> THEN 0
    ELSE Head(d)[2] * LabelProduct(Head(d)[1], a) + PuboValue(Tail(d), a)

\* the assignment of the labels that s, an assignment of indices, restricts to
Restricted(s) == [l \in Range(rmap) |-> s[mapping(l) + 1]]

\* every ancilla equals the product of the pair it is registered for
Consistent(s) ==
    \A p \in DOMAIN reductions : s[reductions[p] + 1] = s[p[1] + 1] * s[p[2] + 1]

\* the least element of a nonempty set of integers
Least(S) == CHOOSE x \in S : \A y \in S : x <= y

\* the number of variables of the key of the i-th item of the PUBO
Degree(i) == Len(D[i][1])

----------------------------------------------------------------------------
(* C1: reduction value preservation.  When to_qubo has returned Q, then at *)
(* every boolean assignment of the original and ancilla indices in which   *)
(* every ancilla equals the product of its registered pair, the value of   *)
(* Q equals the value of the PUBO at the assignment restricted to the      *)
(* original indices.                                                       *)
C1_ValuePreserved ==
    pc = "done" =>
        \A s \in Assignments(ancilla, {0, 1}) :
            Consistent(s) => Value(Q, s) = PuboValue(D, Restricted(s))

\* to_qubo returned after reducing a term of four variables and a term of
\* three variables that shares a registered pair with it
C1_Witness ==
    /\ pc = "done"
    /\ Len(D) = 2
    /\ Degree(1) = 4
    /\ Degree(2) = 3
    /\ ancilla = Len(rmap) + 2

(* C2: optimum preservation with the default weighting.  When to_qubo,     *)
(* called without lam, has returned Q, the minimum of Q over all boolean   *)
(* assignments of original and ancilla indices equals the minimum of the   *)
(* PUBO over the assignments of its variables, and convert_solution maps   *)
(* every minimizer of Q to a minimizer of the PUBO.                        *)
C2_OptimumPreserved ==
    (pc = "done" /\ lam = 0) =>
        LET A    == Assignments(ancilla, {0, 1})
            minQ == Least({Value(Q, s) : s \in A})
            minP == Least({PuboValue(D, a) : a \in [Range(rmap) -> {0, 1}]})
        IN /\ minQ = minP
           /\ \A s \in A :
                Value(Q, s) = minQ => PuboValue(D, convert_solution(s)) = minP

\* to_qubo with the default weighting returned for a PUBO with a negative
\* term of three variables, which rewards setting the ancilla
C2_Witness ==
    /\ pc = "done"
    /\ lam = 0
    /\ \E i \in 1..Len(D) : Degree(i) = 3 /\ D[i][2] < 0
    /\ ancilla > Len(rmap)

(* C3: in to_qubo every source term whose mapped, sorted key K has at most *)
(* two variables has its coefficient added to the output at exactly K,     *)
(* with no ancilla substituted and no penalty added, whatever the registry *)
(* holds, also when K is a registered pair.                                *)
C3_DirectAdd ==
    [][(pc = "for" /\ ti <= Len(D) /\ Len(MappedKey(D[ti][1])) <= 2) =>
          /\ Q' = MatrixAdd(Q, MappedKey(D[ti][1]), D[ti][2])
          /\ reductions' = reductions
          /\ ancilla' = ancilla
          /\ pc' = "for"]_vars

(* C4: the output of to_qubo is quadratic and densely indexed: every key   *)
(* has at most two indices, every index lies in [0, n + a) for n original  *)
(* variables and a ancillas minted in the call, and every ancilla is >= n. *)
C4_QuadraticDense ==
    pc = "done" =>
        LET n == Len(rmap)
            a == Cardinality(DOMAIN reductions)
        IN /\ \A key \in DOMAIN Q :
                /\ Len(key) <= 2
                /\ \A i \in 1..Len(key) : key[i] \in 0..(n + a - 1)
           /\ \A p \in DOMAIN reductions : reductions[p] >= n
           /\ ancilla = n + a

\* to_qubo returned an output that mentions the second of two ancillas
C4_Witness ==
    /\ pc = "done"
    /\ Cardinality(DOMAIN reductions) = 2
    /\ \E key \in DOMAIN Q : \E i \in 1..Len(key) : key[i] = Len(rmap) + 1

(* C5: ancilla non-duplication.  The registry is keyed by pairs x < y, so  *)
(* an unordered pair has one entry; distinct pairs have distinct ancillas; *)
(* no step removes or overwrites an entry; and a reduction step on a key   *)
(* that contains a registered pair mints nothing and substitutes the       *)
(* ancilla registered for a pair of the key.                               *)
C5_NoDuplicateAncilla ==
    [][/\ \A p \in DOMAIN reductions :
            p \in DOMAIN reductions' /\ reductions'[p] = reductions[p]
       /\ \A p \in DOMAIN reductions' : p[1] < p[2]
       /\ \A p, q \in DOMAIN reductions' :
            reductions'[p] = reductions'[q] => p = q
       /\ (pc = "while" /\ Len(k) > 2 /\
           (\E i, j \in 1..Len(k) : i < j /\ <<k[i], k[j]>> \in DOMAIN reductions)) =>
              /\ reductions' = reductions
              /\ ancilla' = ancilla
              /\ \E i, j \in 1..Len(k) :
                    /\ i < j
                    /\ <<k[i], k[j]>> \in DOMAIN reductions
                    /\ Range(k') = (Range(k) \ {k[i], k[j]})
                                       \cup {reductions[<<k[i], k[j]>>]}]_vars

\* the second term of three variables was reduced with the ancilla the
\* first one minted
C5_Witness ==
    /\ pc = "while"
    /\ ti = 2
    /\ Degree(1) = 3
    /\ Degree(2) = 3
    /\ Len(k) = 2
    /\ ancilla = Len(rmap) + 1

\* the value of the penalty block for (x, y, z) at weight l when x, y, z
\* have the values bx, by, bz
BlockValue(x, y, z, l, bx, by, bz) ==
    Value(MatrixAddAll(EmptyDict, constraint_xy_eq_z(x, y, z, l)),
          [i \in 1..(z + 1) |->
              IF i = x + 1 THEN bx ELSE IF i = y + 1 THEN by
              ELSE IF i = z + 1 THEN bz ELSE 0])

\* the weights to_qubo uses for the terms of the PUBO
Weights == {LamOf(lam, D[i][2]) : i \in 1..Len(D)}

(* C6: penalty block correctness.  For every pair (x, y) registered with   *)
(* ancilla z and every weight l the call uses, the block                   *)
(* _constraint_xy_eq_z(x, y, z, l) is 0 at the four states of (x, y, z)    *)
(* with z = x*y and at least l at the other four.                          *)
C6_PenaltyBlock ==
    \A p \in DOMAIN reductions : \A l \in Weights :
        \A bx \in {0, 1}, by \in {0, 1}, bz \in {0, 1} :
            LET val == BlockValue(p[1], p[2], reductions[p], l, bx, by, bz)
            IN /\ (bz = bx * by) => val = 0
               /\ (bz # bx * by) => val >= l

\* a pair is registered while a term of weight 3 is being reduced
C6_Witness ==
    /\ pc = "while"
    /\ DOMAIN reductions # {}
    /\ 3 \in Weights

(* C7: convert_solution reads only the indices [0, n): every assignment    *)
(* that agrees with the given one on [0, n) and differs arbitrarily on the *)
(* ancilla indices gives the same result, and the result's keys are        *)
(* exactly the original labels.                                            *)
C7_AncillaIndependent ==
    pc = "converted" =>
        /\ DOMAIN res = Range(rmap)
        /\ \A s \in Assignments(Len(solution), {-1, 0, 1}) :
              (\A i \in 1..Len(rmap) : s[i] = solution[i]) =>
                  convert_solution(s) = res

\* a solution was converted whose ancilla is 1 although a variable of its
\* pair is 0
C7_Witness ==
    /\ pc = "converted"
    /\ \E p \in DOMAIN reductions :
          solution[reductions[p] + 1] = 1 /\ solution[p[1] + 1] = 0

----------------------------------------------------------------------------
(* The example of the class's documentation:                               *)
(*     PUBO({('a',): 5, (0, 'a', 1): -2, (): -1.5})                        *)
(* with the mapping 'a' -> 0, 0 -> 1, 1 -> 2.  In this specification the   *)
(* coefficients and the penalty weight are counted in halves, so that -1.5 *)
(* is the integer -3; to_qubo is called with a constant weight.            *)

\* largest constant weight, in halves, passed to to_qubo for the example
MaxLamExample == 6

ExamplePubo ==
    << <<(<<"a">>), 10>>, <<(<<"a", "0", "1">>), -4>>, <<(<<>>), -3>> >>

InitExample ==
    /\ D = ExamplePubo
    /\ rmap = <<"a", "0", "1">>
    /\ nacc = Len(ExamplePubo)
    /\ pc = "build"
    /\ lam = 0
    /\ ti = 0
    /\ k = <<>>
    /\ Q = EmptyDict
    /\ ancilla = 0
    /\ reductions = EmptyDict
    /\ P = EmptyDict
    /\ solution = <<>>
    /\ res = EmptyDict
    /\ ConvIdle
    /\ CallerIdle

NextExample ==
    \/ \E l \in 1..MaxLamExample : ToQuboCall(l)
    \/ TermDirect
    \/ TermBegin
    \/ Reduce
    \/ TermEnd
    \/ Return
    \/ \E s \in Solutions : ConvertSolution(s)

SpecExample == InitExample /\ [][NextExample]_vars

\* the weight exceeds the magnitude 2 (4 halves) of the reduced term
SufficientWeight == lam > 4

\* the converted solution is a boolean assignment minimizing the QUBO
MinimizerConverted ==
    /\ pc = "converted"
    /\ Range(solution) \subseteq {0, 1}
    /\ Value(Q, solution) = Least({Value(Q, s) : s \in Assignments(ancilla, {0, 1})})

\* C10 as claimed: from every minimizer of the QUBO of a sufficiently
\* large weight convert_solution recovers {'a': 1, 0: 1, 1: 1}
C10_ClaimedMinimizer ==
    (MinimizerConverted /\ SufficientWeight) =>
        res = [l \in {"a", "0", "1"} |-> 1]

(* C10: concrete reduction case, amended.  For every assignment minimizing *)
(* to_qubo(P) taken with a sufficiently large weight, convert_solution     *)
(* recovers an assignment with 'a' = 0, which is a minimizer of P,         *)
(* whatever the ancilla's value; exactly one ancilla was introduced.       *)
C10_ExampleMinimizer ==
    (MinimizerConverted /\ SufficientWeight) =>
        /\ res["a"] = 0
        /\ PuboValue(D, res) =
              Least({PuboValue(D, a) : a \in [Range(rmap) -> {0, 1}]})
        /\ ancilla = Len(rmap) + 1

\* a minimizer of the QUBO was converted in which the labels 0 and 1 are 1
C10_Witness ==
    /\ MinimizerConverted
    /\ SufficientWeight
    /\ D = ExamplePubo
    /\ res["0"] = 1
    /\ res["1"] = 1

----------------------------------------------------------------------------
(* The containers and the converters of src/qubovert/utils/_conversions.py *)
(* (qubo_to_ising, ising_to_qubo, pubo_to_hising, hising_to_pubo).         *)
(*                                                                         *)
(* The converters divide by 2 and by 4.  The coefficients of this part are *)
(* therefore fixed-point numbers: the integer c stands for c / Scale.  The *)
(* values accumulated are multiples of Scale, so every halving a converter *)
(* or a round trip makes is exact.                                         *)

\* the labels of the polynomials handed to accumulate and to the converters
ConvLabels == {0, 1, 2}

\* the number 1 as a coefficient
Scale == 2 ^ Cardinality(ConvLabels)

\* the values accumulated: 1 and -1
ConvValues == {-Scale, Scale}

\* number of accumulations made into a container
MaxAcc == 2

\* the raw keys accumulated: every label may occur, one of them twice
ConvRawKeys == UNION {[1..m -> ConvLabels] : m \in 0..(Cardinality(ConvLabels) + 1)}

\* the matrix classes (dense integer labels) and the general classes
MatrixTypes == {"QUBOMatrix", "IsingMatrix", "PUBOMatrix", "HIsingMatrix"}
GeneralTypes == {"QUBO", "Ising", "PUBO", "HIsing"}
Types == MatrixTypes \cup GeneralTypes

\* the classes over spin variables {1, -1}; the others are over {0, 1}
IsSpin(t) == t \in {"IsingMatrix", "HIsingMatrix", "Ising", "HIsing"}

\* the classes of degree at most 2
IsBounded(t) == t \in {"QUBOMatrix", "IsingMatrix", "QUBO", "Ising"}

\* number of occurrences of the label l in key
Count(key, l) == Cardinality({i \in 1..Len(key) : key[i] = l})

RECURSIVE CancelAdjacent(_)
\* s without its pairs of equal neighbours
CancelAdjacent(s) ==
    IF Len(s) < 2 THEN s
    ELSE IF s[1] = s[2] THEN CancelAdjacent(Tail(Tail(s)))
    ELSE <<s[1]>> \o CancelAdjacent(Tail(s))

\* squash_key of the spin classes cancelling equal neighbours before sorting
squash_spin_key_adjacent(key) == sorted(CancelAdjacent(key))

\* squash_key of the spin classes collapsing duplicates as the binary one
squash_spin_key_distinct(key) == SortedInts(Range(key))

\* squash_key of the spin classes: the sorted labels occurring an odd
\* number of times, since z * z = 1
squash_spin_key(key) == SortedInts({l \in Range(key) : Count(key, l) % 2 = 1})

\* squash_key of the class t
canonicalize(t, key) ==
    IF IsSpin(t) THEN squash_spin_key(key) ELSE squash_key(key)

\* the degree check made on the raw key instead of its canonical form
KeyValidRawLength(t, key) == IsBounded(t) => Len(key) <= 2

\* squash_key of a class of degree at most 2 raises on a longer key
KeyValid(t, key) == IsBounded(t) => Len(canonicalize(t, key)) <= 2

\* M[key] += v keeping an entry whose value became zero
accumulate_keep_zero(t, M, key, v) ==
    LET kk == canonicalize(t, key)
    IN [x \in DOMAIN M \cup {kk} |-> IF x = kk THEN DictGet(M, kk) + v ELSE M[x]]

\* M[key] += v on a container of class t, for a valid key
accumulate(t, M, key, v) ==
    LET kk == canonicalize(t, key)
    IN DictSet(M, kk, DictGet(M, kk) + v)

RECURSIVE AccumulateAll(_, _, _)
\* for key, value in items: M[key] += value
AccumulateAll(t, M, items) ==
    IF items = <<>> THEN M
    ELSE AccumulateAll(t, accumulate(t, M, Head(items)[1], Head(items)[2]),
                       Tail(items))

\* v / 2 and v / 4
Half(v) == v \div 2
Quarter(v) == v \div 4

\* value * v, the product of two coefficients
Times(value, v) == (value * v) \div Scale

\* The class of the result and the class whose squash_key is used:
\* qubo_to_ising lines 76-81, ising_to_qubo lines 141-146,
\* pubo_to_hising lines 231-236, hising_to_pubo lines 309-314.
\* IsingTypeOfIsinstance is the test isinstance(Q, QUBOMatrix), which holds
\* of a QUBO as well.
IsingTypeOfIsinstance(t) ==
    IF t \in {"QUBOMatrix", "QUBO"} THEN "IsingMatrix" ELSE "Ising"
IsingTypeOf(t) == IF t = "QUBOMatrix" THEN "IsingMatrix" ELSE "Ising"
QuboSquashOf(t) == IF t = "QUBOMatrix" THEN "QUBOMatrix" ELSE "QUBO"
QuboTypeOf(t) == IF t = "IsingMatrix" THEN "QUBOMatrix" ELSE "QUBO"
IsingSquashOf(t) == IF t = "IsingMatrix" THEN "IsingMatrix" ELSE "Ising"
HIsingTypeOf(t) == IF t = "PUBOMatrix" THEN "HIsingMatrix" ELSE "HIsing"
PuboSquashOf(t) == IF t = "PUBOMatrix" THEN "PUBOMatrix" ELSE "PUBO"
PuboTypeOf(t) == IF t = "HIsingMatrix" THEN "PUBOMatrix" ELSE "PUBO"
HIsingSquashOf(t) == IF t = "HIsingMatrix" THEN "HIsingMatrix" ELSE "HIsing"

\* qubo_to_ising giving v/2 instead of v/4 to the two degree-1 terms of a
\* degree-2 term
QuboTermHalfLinear(kk, v) ==
    IF Len(kk) = 0 THEN << <<kk, v>> >>
    ELSE IF Len(kk) = 1 THEN << <<kk, Half(v)>>, <<(<<>>), Half(v)>> >>
    ELSE IF Len(kk) = 2
    THEN << <<kk, Quarter(v)>>, <<(<<kk[1]>>), Half(v)>>,
            <<(<<kk[2]>>), Half(v)>>, <<(<<>>), Quarter(v)>> >>
    ELSE <<>>

\* qubo_to_ising adding nothing to the constant for a degree-2 term
QuboTermNoConstant(kk, v) ==
    IF Len(kk) = 0 THEN << <<kk, v>> >>
    ELSE IF Len(kk) = 1 THEN << <<kk, Half(v)>>, <<(<<>>), Half(v)>> >>
    ELSE IF Len(kk) = 2
    THEN << <<kk, Quarter(v)>>, <<(<<kk[1]>>), Quarter(v)>>,
            <<(<<kk[2]>>), Quarter(v)>> >>
    ELSE <<>>

\* the additions qubo_to_ising makes to L for the term kk with value v
QuboTerm(kk, v) ==
    IF Len(kk) = 0 THEN << <<kk, v>> >>
    ELSE IF Len(kk) = 1 THEN << <<kk, Half(v)>>, <<(<<>>), Half(v)>> >>
    ELSE IF Len(kk) = 2
    THEN << <<kk, Quarter(v)>>, <<(<<kk[1]>>), Quarter(v)>>,
            <<(<<kk[2]>>), Quarter(v)>>, <<(<<>>), Quarter(v)>> >>
    ELSE <<>>

RECURSIVE QuboToIsingLoop(_, _, _, _)
\* for kp, v in Q.items(): k = squash_key(kp); L[...] += ...
QuboToIsingLoop(t, M, keys, L) ==
    IF keys = {} THEN L
    ELSE LET kp == CHOOSE x \in keys : TRUE
             kk == canonicalize(QuboSquashOf(t), kp)
         IN QuboToIsingLoop(t, M, keys \ {kp},
                AccumulateAll(IsingTypeOf(t), L, QuboTerm(kk, M[kp])))

qubo_to_ising(t, M) == QuboToIsingLoop(t, M, DOMAIN M, EmptyDict)

\* ising_to_qubo adding v instead of -v to the constant for a degree-1 term
IsingTermPlusConstant(kk, v) ==
    IF Len(kk) = 0 THEN << <<kk, v>> >>
    ELSE IF Len(kk) = 1 THEN << <<kk, 2 * v>>, <<(<<>>), v>> >>
    ELSE IF Len(kk) = 2
    THEN << <<kk, 4 * v>>, <<(<<kk[1]>>), -(2 * v)>>,
            <<(<<kk[2]>>), -(2 * v)>>, <<(<<>>), v>> >>
    ELSE <<>>

\* ising_to_qubo subtracting v instead of 2 v from the degree-1 terms of a
\* degree-2 term
IsingTermSingleLinear(kk, v) ==
    IF Len(kk) = 0 THEN << <<kk, v>> >>
    ELSE IF Len(kk) = 1 THEN << <<kk, 2 * v>>, <<(<<>>), -v>> >>
    ELSE IF Len(kk) = 2
    THEN << <<kk, 4 * v>>, <<(<<kk[1]>>), -v>>,
            <<(<<kk[2]>>), -v>>, <<(<<>>), v>> >>
    ELSE <<>>

\* the additions ising_to_qubo makes to Q for the term kk with value v
IsingTerm(kk, v) ==
    IF Len(kk) = 0 THEN << <<kk, v>> >>
    ELSE IF Len(kk) = 1 THEN << <<kk, 2 * v>>, <<(<<>>), -v>> >>
    ELSE IF Len(kk) = 2
    THEN << <<kk, 4 * v>>, <<(<<kk[1]>>), -(2 * v)>>,
            <<(<<kk[2]>>), -(2 * v)>>, <<(<<>>), v>> >>
    ELSE <<>>

RECURSIVE IsingToQuboLoop(_, _, _, _)
\* for kp, v in L.items(): k = squash_key(kp); Q[...] += ...
IsingToQuboLoop(t, M, keys, L) ==
    IF keys = {} THEN L
    ELSE LET kp == CHOOSE x \in keys : TRUE
             kk == canonicalize(IsingSquashOf(t), kp)
         IN IsingToQuboLoop(t, M, keys \ {kp},
                AccumulateAll(QuboTypeOf(t), L, IsingTerm(kk, M[kp])))

ising_to_qubo(t, M) == IsingToQuboLoop(t, M, DOMAIN M, EmptyDict)

RECURSIVE PeelHalfDropWhole(_, _)
\* the peel of pubo_to_hising halving only the branch that keeps the label
PeelHalfDropWhole(x, inner) ==
    IF inner = <<>> THEN <<>>
    ELSE << <<(<<x>>) \o Head(inner)[1], Half(Head(inner)[2])>>,
            <<Head(inner)[1], Head(inner)[2]>> >>
         \o PeelHalfDropWhole(x, Tail(inner))

RECURSIVE PeelHalf(_, _)
\* for key, value in inner: yield (x,) + key, value / 2; yield key, value / 2
PeelHalf(x, inner) ==
    IF inner = <<>> THEN <<>>
    ELSE << <<(<<x>>) \o Head(inner)[1], Half(Head(inner)[2])>>,
            <<Head(inner)[1], Half(Head(inner)[2])>> >>
         \o PeelHalf(x, Tail(inner))

RECURSIVE pubo_generate_new_key_value(_)
\* generate_new_key_value of pubo_to_hising: the <<key, value>> yielded, in order
pubo_generate_new_key_value(kk) ==
    IF kk = <<>> THEN << <<kk, Scale>> >>
    ELSE PeelHalf(Head(kk), pubo_generate_new_key_value(Tail(kk)))

RECURSIVE PeelDoubleBoth(_, _)
\* the peel of hising_to_pubo doubling the branch that drops the label too
PeelDoubleBoth(x, inner) ==
    IF inner = <<>> THEN <<>>
    ELSE << <<(<<x>>) \o Head(inner)[1], 2 * Head(inner)[2]>>,
            <<Head(inner)[1], -(2 * Head(inner)[2])>> >>
         \o PeelDoubleBoth(x, Tail(inner))

RECURSIVE PeelDoublePlus(_, _)
\* the peel of hising_to_pubo keeping the sign in the branch that drops the label
PeelDoublePlus(x, inner) ==
    IF inner = <<>> THEN <<>>
    ELSE << <<(<<x>>) \o Head(inner)[1], 2 * Head(inner)[2]>>,
            <<Head(inner)[1], Head(inner)[2]>> >>
         \o PeelDoublePlus(x, Tail(inner))

RECURSIVE PeelDouble(_, _)
\* for key, value in inner: yield (x,) + key, 2 * value; yield key, -value
PeelDouble(x, inner) ==
    IF inner = <<>> THEN <<>>
    ELSE << <<(<<x>>) \o Head(inner)[1], 2 * Head(inner)[2]>>,
            <<Head(inner)[1], -Head(inner)[2]>> >>
         \o PeelDouble(x, Tail(inner))

RECURSIVE hising_generate_new_key_value(_)
\* generate_new_key_value of hising_to_pubo: the <<key, value>> yielded, in order
hising_generate_new_key_value(kk) ==
    IF kk = <<>> THEN << <<kk, Scale>> >>
    ELSE PeelDouble(Head(kk), hising_generate_new_key_value(Tail(kk)))

\* the pairs <<key, value * v>> of the pairs <<key, value>> of items
Scaled(items, v) ==
    [i \in 1..Len(items) |-> <<items[i][1], Times(items[i][2], v)>>]

RECURSIVE PuboToHisingLoop(_, _, _, _)
\* for k, v in P.items():
\*     for key, value in generate_new_key_value(squash_key(k)): H[key] += value * v
PuboToHisingLoop(t, M, keys, H) ==
    IF keys = {} THEN H
    ELSE LET kp == CHOOSE x \in keys : TRUE
             kk == canonicalize(PuboSquashOf(t), kp)
         IN PuboToHisingLoop(t, M, keys \ {kp},
                AccumulateAll(HIsingTypeOf(t), H,
                              Scaled(pubo_generate_new_key_value(kk), M[kp])))

pubo_to_hising(t, M) == PuboToHisingLoop(t, M, DOMAIN M, EmptyDict)

RECURSIVE HisingToPuboLoop(_, _, _, _)
\* for k, v in H.items():
\*     for key, value in generate_new_key_value(squash_key(k)): P[key] += value * v
HisingToPuboLoop(t, M, keys, H) ==
    IF keys = {} THEN H
    ELSE LET kp == CHOOSE x \in keys : TRUE
             kk == canonicalize(HIsingSquashOf(t), kp)
         IN HisingToPuboLoop(t, M, keys \ {kp},
                AccumulateAll(PuboTypeOf(t), H,
                              Scaled(hising_generate_new_key_value(kk), M[kp])))

hising_to_pubo(t, M) == HisingToPuboLoop(t, M, DOMAIN M, EmptyDict)

----------------------------------------------------------------------------
(* Accumulating into a container and converting it.                        *)

\* the PUBO of _pubo.py is not in use
PuboIdle ==
    /\ D = <<>>
    /\ rmap = <<>>
    /\ nacc = 0
    /\ pc = "build"
    /\ lam = 0
    /\ ti = 0
    /\ k = <<>>
    /\ Q = EmptyDict
    /\ ancilla = 0
    /\ reductions = EmptyDict
    /\ P = EmptyDict
    /\ solution = <<>>
    /\ res = EmptyDict

\* an empty container of any class
InitConv ==
    /\ PuboIdle
    /\ CallerIdle
    /\ poly = EmptyDict
    /\ ptype \in Types
    /\ cnt = 0
    /\ lastKey = <<>>
    /\ lastVal = 0
    /\ rejected = FALSE
    /\ conv = <<>>
    /\ out = EmptyDict
    /\ otype = ""
    /\ back = EmptyDict
    /\ cpc = "acc"

\* poly[key] += v
Accumulate(key, v) ==
    /\ cpc = "acc"
    /\ cnt < MaxAcc
    /\ KeyValid(ptype, key)
    /\ poly' = accumulate(ptype, poly, key, v)
    /\ cnt' = cnt + 1
    /\ lastKey' = key
    /\ lastVal' = v
    /\ rejected' = FALSE
    /\ UNCHANGED <<ptype, conv, out, otype, back, cpc>>
    /\ UNCHANGED <<pvars, tvars>>

\* poly[key] += v raises: the key is too long for the class of poly
AccumulateRaises(key, v) ==
    /\ cpc = "acc"
    /\ cnt < MaxAcc
    /\ ~KeyValid(ptype, key)
    /\ cnt' = cnt + 1
    /\ lastKey' = key
    /\ lastVal' = v
    /\ rejected' = TRUE
    /\ UNCHANGED <<poly, ptype, conv, out, otype, back, cpc>>
    /\ UNCHANGED <<pvars, tvars>>

\* the argument of the next converter: poly, then the result of the first
Source == IF conv = <<>> THEN poly ELSE out
SourceType == IF conv = <<>> THEN ptype ELSE otype

\* the converter name returns result, of class rtype
Convert(name, result, rtype) ==
    /\ cpc \in {"acc", "converted"}
    /\ conv' = Append(conv, name)
    /\ IF conv = <<>>
       THEN /\ out' = result
            /\ otype' = rtype
            /\ cpc' = "converted"
            /\ UNCHANGED back
       ELSE /\ back' = result
            /\ cpc' = "back"
            /\ UNCHANGED <<out, otype>>
    /\ lastKey' = <<>>
    /\ lastVal' = 0
    /\ rejected' = FALSE
    /\ UNCHANGED <<poly, ptype, cnt>>
    /\ UNCHANGED <<pvars, tvars>>

\* the converter name raises: squash_key rejects a key of its argument
ConvertRaises(name) ==
    /\ cpc \in {"acc", "converted"}
    /\ conv' = Append(conv, name)
    /\ cpc' = "raised"
    /\ lastKey' = <<>>
    /\ lastVal' = 0
    /\ rejected' = FALSE
    /\ UNCHANGED <<poly, ptype, cnt, out, otype, back>>
    /\ UNCHANGED <<pvars, tvars>>

\* some key of M is rejected by the squash_key of the class t
SomeKeyInvalid(t, M) == \E kp \in DOMAIN M : ~KeyValid(t, kp)

QuboToIsing ==
    /\ ~IsSpin(SourceType)
    /\ ~SomeKeyInvalid(QuboSquashOf(SourceType), Source)
    /\ Convert("qubo_to_ising", qubo_to_ising(SourceType, Source),
               IsingTypeOf(SourceType))

QuboToIsingRaises ==
    /\ ~IsSpin(SourceType)
    /\ SomeKeyInvalid(QuboSquashOf(SourceType), Source)
    /\ ConvertRaises("qubo_to_ising")

IsingToQubo ==
    /\ IsSpin(SourceType)
    /\ ~SomeKeyInvalid(IsingSquashOf(SourceType), Source)
    /\ Convert("ising_to_qubo", ising_to_qubo(SourceType, Source),
               QuboTypeOf(SourceType))

IsingToQuboRaises ==
    /\ IsSpin(SourceType)
    /\ SomeKeyInvalid(IsingSquashOf(SourceType), Source)
    /\ ConvertRaises("ising_to_qubo")

PuboToHising ==
    /\ ~IsSpin(SourceType)
    /\ Convert("pubo_to_hising", pubo_to_hising(SourceType, Source),
               HIsingTypeOf(SourceType))

HisingToPubo ==
    /\ IsSpin(SourceType)
    /\ Convert("hising_to_pubo", hising_to_pubo(SourceType, Source),
               PuboTypeOf(SourceType))

NextConv ==
    \/ \E key \in ConvRawKeys, v \in ConvValues : Accumulate(key, v)
    \/ \E key \in ConvRawKeys, v \in ConvValues : AccumulateRaises(key, v)
    \/ QuboToIsing
    \/ QuboToIsingRaises
    \/ IsingToQubo
    \/ IsingToQuboRaises
    \/ PuboToHising
    \/ HisingToPubo

SpecConv == InitConv /\ [][NextConv]_vars

----------------------------------------------------------------------------
(* Properties of the converters.                                           *)

\* the converter name was applied to poly and returned out
Converted(name) ==
    /\ Len(conv) >= 1
    /\ conv[1] = name
    /\ cpc = "raised" => Len(conv) = 2

\* the assignments of the binary variables ConvLabels
BinaryAssignments == Assignments(Cardinality(ConvLabels), {0, 1})

\* the spin assignment z = 2 x - 1 of the binary assignment x
SpinOf(x) == [i \in DOMAIN x |-> 2 * x[i] - 1]

\* the polynomial has the single term kk
SingleTerm(M, kk) == DOMAIN M = {kk}

\* C11: ising_to_qubo(qubo_to_ising(P)) = P as mappings, for every binary
\* polynomial P of degree at most 2 in canonical form, the constant term
\* included and no zero entry left.
C11_RoundTrip ==
    (cpc = "back" /\ conv = <<"qubo_to_ising", "ising_to_qubo">>)
        => back = poly

C11_Witness ==
    /\ cpc = "back"
    /\ conv = <<"qubo_to_ising", "ising_to_qubo">>
    /\ back = poly
    /\ Cardinality(DOMAIN poly) = 2
    /\ \E kk \in DOMAIN poly : Len(kk) = 2
    /\ \E kk \in DOMAIN out : out[kk] % Scale # 0

\* what C12 says qubo_to_ising makes of the single term kk with value v
QuboTermImage(kk, v) ==
    IF Len(kk) = 0 THEN (kk :> v)
    ELSE IF Len(kk) = 1 THEN (kk :> v \div 2) @@ (<<>> :> v \div 2)
    ELSE (kk :> v \div 4) @@ (<<kk[1]>> :> v \div 4)
         @@ (<<kk[2]>> :> v \div 4) @@ (<<>> :> v \div 4)

\* C12: the value of qubo_to_ising(Q) at the spin assignment z = 2 x - 1 is
\* the value of Q at x, for every binary Q of degree at most 2 and every
\* binary x; a constant is kept, a degree-1 value v gives v/2 on the spin
\* term and on the constant, a degree-2 value v gives v/4 on (i,j), (i,),
\* (j,) and the constant.
C12_QuboToIsingValue ==
    Converted("qubo_to_ising") =>
        /\ \A x \in BinaryAssignments : Value(out, SpinOf(x)) = Value(poly, x)
        /\ \A kk \in DOMAIN poly :
               SingleTerm(poly, kk) => out = QuboTermImage(kk, poly[kk])

C12_Witness ==
    /\ Converted("qubo_to_ising")
    /\ \E kk \in DOMAIN poly : Len(kk) = 2 /\ SingleTerm(poly, kk)
    /\ Cardinality(DOMAIN out) = 4

\* the accumulation, over the terms of M, of what C13 says each term gives
RECURSIVE IsingClosedForm(_, _)
IsingClosedForm(M, keys) ==
    IF keys = {} THEN EmptyDict
    ELSE LET kk == CHOOSE x \in keys : TRUE
             v == M[kk]
             rest == IsingClosedForm(M, keys \ {kk})
             add(d, key, val) == DictSet(d, key, DictGet(d, key) + val)
         IN IF Len(kk) = 0 THEN add(rest, <<>>, v)
            ELSE IF Len(kk) = 1
            THEN add(add(rest, kk, 2 * v), <<>>, -v)
            ELSE add(add(add(add(rest, kk, 4 * v), <<kk[1]>>, -2 * v),
                         <<kk[2]>>, -2 * v), <<>>, v)

\* C13: for every spin polynomial L of degree at most 2, ising_to_qubo(L) is
\* the accumulation over the terms of L of: v on () for a constant v; 2v on
\* (i,) and -v on () for v on (i,); 4v on (i,j), -2v on (i,), -2v on (j,)
\* and v on () for v on (i,j).  Its value at the binary x is the value of L
\* at z = 2 x - 1.
C13_IsingToQuboClosedForm ==
    Converted("ising_to_qubo") =>
        /\ out = IsingClosedForm(poly, DOMAIN poly)
        /\ \A x \in BinaryAssignments : Value(out, x) = Value(poly, SpinOf(x))

C13_Witness ==
    /\ Converted("ising_to_qubo")
    /\ Cardinality(DOMAIN poly) = 2
    /\ \E kk \in DOMAIN poly : Len(kk) = 2
    /\ \E kk \in DOMAIN poly : Len(kk) = 1

\* the sub-keys of the canonical key kk: its subsets, in the order of kk
SubKeys(kk) == {SortedInts(S) : S \in SUBSET Range(kk)}

\* the keys of the pairs a generator yields
KeysOf(gen) == {gen[i][1] : i \in 1..Len(gen)}

\* C14: for a single canonical binary monomial K of degree d with
\* coefficient v, the peel of pubo_to_hising yields exactly the 2^d subsets
\* of K, each once and in K's label order, each with coefficient v / 2^d
\* (factor 1 for the empty key); for any polynomial the value of
\* pubo_to_hising(P) at z = 2 x - 1 is the value of P at x.
C14_PuboToHisingExpansion ==
    Converted("pubo_to_hising") =>
        /\ \A x \in BinaryAssignments : Value(out, SpinOf(x)) = Value(poly, x)
        /\ \A kk \in DOMAIN poly :
               SingleTerm(poly, kk) =>
                   LET d == Len(kk)
                       gen == pubo_generate_new_key_value(kk)
                   IN /\ Len(gen) = 2 ^ d
                      /\ Cardinality(SubKeys(kk)) = 2 ^ d
                      /\ KeysOf(gen) = SubKeys(kk)
                      /\ \A i \in 1..Len(gen) : gen[i][2] * (2 ^ d) = Scale
                      /\ DOMAIN out = SubKeys(kk)
                      /\ \A S \in SubKeys(kk) : out[S] * (2 ^ d) = poly[kk]

C14_Witness ==
    /\ Converted("pubo_to_hising")
    /\ \E kk \in DOMAIN poly : SingleTerm(poly, kk) /\ Len(kk) = 3
    /\ Cardinality(DOMAIN out) = 8
    /\ \A S \in DOMAIN out : out[S] * 8 = poly[<<0, 1, 2>>]

\* (-1)^n
Sign(n) == IF n % 2 = 0 THEN 1 ELSE -1

\* C15: for a single canonical spin monomial K of degree d with coefficient
\* v, the peel of hising_to_pubo yields every subset S of K exactly once,
\* with coefficient v * 2^|S| * (-1)^(d - |S|); for any polynomial the value
\* of hising_to_pubo(H) at the binary x is the value of H at z = 2 x - 1.
C15_HisingToPuboExpansion ==
    Converted("hising_to_pubo") =>
        /\ \A x \in BinaryAssignments : Value(out, x) = Value(poly, SpinOf(x))
        /\ \A kk \in DOMAIN poly :
               SingleTerm(poly, kk) =>
                   LET d == Len(kk)
                       gen == hising_generate_new_key_value(kk)
                   IN /\ Len(gen) = 2 ^ d
                      /\ Cardinality(SubKeys(kk)) = 2 ^ d
                      /\ KeysOf(gen) = SubKeys(kk)
                      /\ \A i \in 1..Len(gen) :
                             gen[i][2] = Scale * (2 ^ Len(gen[i][1]))
                                               * Sign(d - Len(gen[i][1]))
                      /\ DOMAIN out = SubKeys(kk)
                      /\ \A S \in SubKeys(kk) :
                             out[S] = poly[kk] * (2 ^ Len(S)) * Sign(d - Len(S))

C15_Witness ==
    /\ Converted("hising_to_pubo")
    /\ \E kk \in DOMAIN poly : SingleTerm(poly, kk) /\ Len(kk) = 3
    /\ Cardinality(DOMAIN out) = 8
    /\ out[<<0, 1, 2>>] = 8 * poly[<<0, 1, 2>>]
    /\ out[<<>>] = -poly[<<0, 1, 2>>]

\* the matrix class the converter name is written for
MatchingMatrix(name) ==
    CASE name = "qubo_to_ising" -> "QUBOMatrix"
      [] name = "ising_to_qubo" -> "IsingMatrix"
      [] name = "pubo_to_hising" -> "PUBOMatrix"
      [] name = "hising_to_pubo" -> "HIsingMatrix"

\* the labels occurring in the keys of M
LabelsOf(M) == UNION {Range(kk) : kk \in DOMAIN M}

\* some converter was applied to poly and returned out
SomeConverted == Len(conv) >= 1 /\ (cpc = "raised" => Len(conv) = 2)

\* C16: a converter returns a matrix container exactly when its argument is
\* the matrix container it is written for, and a general container
\* otherwise; every label in a key of the result occurs in a key of the
\* argument.
C16_ShapeAndLabels ==
    SomeConverted =>
        /\ otype \in Types
        /\ IsSpin(otype) <=> ~IsSpin(ptype)
        /\ otype \in MatrixTypes <=> ptype = MatchingMatrix(conv[1])
        /\ otype \in GeneralTypes <=> ptype # MatchingMatrix(conv[1])
        /\ LabelsOf(out) \subseteq LabelsOf(poly)

C16_Witness ==
    /\ SomeConverted
    /\ conv[1] = "qubo_to_ising"
    /\ ptype = "QUBO"
    /\ otype = "Ising"
    /\ LabelsOf(poly) = {1, 2}
    /\ LabelsOf(out) = {1, 2}

----------------------------------------------------------------------------
(* Properties of the containers.                                           *)

\* no stored coefficient of M is zero
NoZero(M) == \A kk \in DOMAIN M : M[kk] # 0

\* accumulate((0,0,1,2), 1) was made into an empty polynomial over binary
\* variables and accumulate((0,1,2), -1) is made now
CancellingStep ==
    /\ ~IsSpin(ptype)
    /\ ~IsBounded(ptype)
    /\ cnt = 1
    /\ lastKey = <<0, 0, 1, 2>>
    /\ lastVal = Scale
    /\ cnt' = 2
    /\ lastKey' = <<0, 1, 2>>
    /\ lastVal' = -Scale

\* C17: after any sequence of accumulations, and in the result of every
\* converter, no stored coefficient is zero: an accumulation that brings a
\* coefficient to zero removes the entry; accumulate((0,0,1,2), 1) then
\* accumulate((0,1,2), -1) on an empty binary polynomial leaves it empty.
C17_ZeroElimination ==
    /\ [](NoZero(poly) /\ NoZero(out) /\ NoZero(back))
    /\ [][CancellingStep => poly' = EmptyDict]_vars

C17_Witness ==
    /\ ptype = "PUBO"
    /\ cpc = "acc"
    /\ cnt = 2
    /\ lastKey = <<0, 1, 2>>
    /\ lastVal = -Scale
    /\ ~rejected
    /\ poly = EmptyDict

\* kk is sorted and has no label twice
StrictlySorted(kk) == \A i \in 1..(Len(kk) - 1) : kk[i] < kk[i + 1]

\* the labels of the raw key that its canonical form keeps: all of them
\* over binary variables, those occurring an odd number of times over spins
KeptLabels(t, key) ==
    IF IsSpin(t)
    THEN {l \in Range(key) : Count(key, l) % 2 = 1}
    ELSE Range(key)

\* the last accumulation added lastVal' to the entry of the key kk alone
AddedAt(kk) ==
    /\ DictGet(poly', kk) = DictGet(poly, kk) + lastVal'
    /\ \A o \in (DOMAIN poly \cup DOMAIN poly') \ {kk} :
           DictGet(poly', o) = DictGet(poly, o)

\* C18: the key an accumulation goes to is the sorted sequence of the
\* distinct labels of the raw key in a binary polynomial, and of the labels
\* occurring an odd number of times in a spin polynomial; raw keys with the
\* same canonical form go to the same entry.
C18_CanonicalKey ==
    /\ [](\A kk \in DOMAIN poly : StrictlySorted(kk))
    /\ [][(cnt' = cnt + 1 /\ ~rejected') =>
              \E kk \in DOMAIN poly \cup DOMAIN poly' :
                  /\ StrictlySorted(kk)
                  /\ Range(kk) = KeptLabels(ptype, lastKey')
                  /\ AddedAt(kk)]_vars

C18_Witness ==
    /\ ptype = "HIsingMatrix"
    /\ cpc = "acc"
    /\ cnt = 2
    /\ lastKey = <<1, 0, 1>>
    /\ ~rejected
    /\ poly = (<<0>> :> 2 * Scale)

\* C19: squash_key applied to a canonical key returns it, for every raw key
\* and both algebras: canonicalize(canonicalize(K)) = canonicalize(K); so
\* the keys a container stores, which a converter squashes again, are kept.
C19_Idempotent ==
    /\ canonicalize(ptype, canonicalize(ptype, lastKey))
           = canonicalize(ptype, lastKey)
    /\ \A kk \in DOMAIN poly : canonicalize(ptype, kk) = kk
    /\ SomeConverted => \A kk \in DOMAIN out : canonicalize(otype, kk) = kk

C19_Witness ==
    /\ IsSpin(ptype)
    /\ cpc = "acc"
    /\ lastKey = <<0, 1, 0, 2>>
    /\ canonicalize(ptype, lastKey) = <<1, 2>>
    /\ <<1, 2>> \in DOMAIN poly

\* the length of the canonical form of the raw key in a container of class t
CanonicalLength(t, key) == Cardinality(KeptLabels(t, key))

\* the first converter was qubo_to_ising or ising_to_qubo and it raised
BoundedConverterRaised ==
    /\ cpc = "raised"
    /\ Len(conv) = 1

\* C20: accumulating into a container of degree at most 2 a raw key whose
\* canonical form is longer than 2 raises and leaves the contents as they
\* were; a raw key whose canonical form has length at most 2 is accepted
\* whatever its own length, under its whole canonical form; a converter of
\* degree 2 raises on a longer key instead of dropping the term.
C20_OverlongRejected ==
    /\ [](IsBounded(ptype) => \A kk \in DOMAIN poly : Len(kk) <= 2)
    /\ []((Len(conv) >= 1 /\ conv[1] \in {"qubo_to_ising", "ising_to_qubo"})
            => (BoundedConverterRaised <=> \E kk \in DOMAIN poly : Len(kk) > 2))
    /\ [][(cnt' = cnt + 1 /\ IsBounded(ptype)) =>
              IF CanonicalLength(ptype, lastKey') > 2
              THEN rejected' /\ poly' = poly
              ELSE /\ ~rejected'
                   /\ \E kk \in DOMAIN poly \cup DOMAIN poly' :
                          /\ Range(kk) = KeptLabels(ptype, lastKey')
                          /\ AddedAt(kk)]_vars

C20_Witness ==
    /\ ptype = "QUBO"
    /\ cpc = "acc"
    /\ cnt = 2
    /\ rejected
    /\ lastKey = <<2, 0, 1, 0>>
    /\ poly = (<<0, 1>> :> Scale)

\* C27: the converters of degree 2 agree with the general ones: for every
\* binary Q of degree at most 2, qubo_to_ising(Q) and pubo_to_hising(Q) store
\* the same mapping, and for every spin L of degree at most 2,
\* ising_to_qubo(L) and hising_to_pubo(L) store the same mapping.
C27_BoundedAgreesWithGeneral ==
    /\ Converted("qubo_to_ising") => out = pubo_to_hising(ptype, poly)
    /\ Converted("ising_to_qubo") => out = hising_to_pubo(ptype, poly)

C27_Witness ==
    /\ Converted("qubo_to_ising")
    /\ Cardinality(DOMAIN poly) = 2
    /\ \E kk \in DOMAIN poly : Len(kk) = 2
    /\ \E kk \in DOMAIN poly : Len(kk) = 1
    /\ out = pubo_to_hising(ptype, poly)
    /\ out # poly

\* C30: the general converters are inverse to each other:
\* hising_to_pubo(pubo_to_hising(P)) = P for every binary P and
\* pubo_to_hising(hising_to_pubo(H)) = H for every spin H, of any degree, as
\* mappings, the terms that cancel on the way being removed.
C30_GeneralRoundTrip ==
    /\ (cpc = "back" /\ conv = <<"pubo_to_hising", "hising_to_pubo">>)
           => back = poly
    /\ (cpc = "back" /\ conv = <<"hising_to_pubo", "pubo_to_hising">>)
           => back = poly

C30_Witness ==
    /\ cpc = "back"
    /\ conv = <<"pubo_to_hising", "hising_to_pubo">>
    /\ Cardinality(DOMAIN poly) = 2
    /\ <<0, 1, 2>> \in DOMAIN poly
    /\ Cardinality(DOMAIN out) = 8
    /\ back = poly

----------------------------------------------------------------------------
(* Further properties of the PUBO and of to_qubo.                          *)

\* no element occurs twice in s
NoRepeat(s) == \A i, j \in 1..Len(s) : s[i] = s[j] => i = j

\* a is an initial part of b
IsPrefix(a, b) == Len(a) <= Len(b) /\ SubSeq(b, 1, Len(a)) = a

\* the labels of the keys the PUBO stores
LabelsOfPubo == UNION {Range(D[i][1]) : i \in 1..Len(D)}

\* to_qubo has been entered
InToQubo == pc \in {"for", "while", "done", "raised", "converted"}

\* C21: the label mapping is a dense bijection in first-seen order: the n
\* labels seen so far have exactly the indices 0..n-1, a label keeps its
\* index for ever and new labels come after the old ones, the reverse
\* mapping of the index of a label is the label; so the first ancilla of
\* to_qubo, n, and every later one is no index of a label.
C21_DenseBijection ==
    /\ [](/\ NoRepeat(rmap)
          /\ LabelsOfPubo \subseteq Range(rmap)
          /\ \A l \in Range(rmap) :
                 /\ mapping(l) \in 0..(num_binary_variables - 1)
                 /\ reverse_mapping(mapping(l)) = l
          /\ \A i \in 0..(num_binary_variables - 1) :
                 mapping(reverse_mapping(i)) = i
          /\ InToQubo =>
                 /\ ancilla >= num_binary_variables
                 /\ \A p \in DOMAIN reductions :
                        /\ reductions[p] >= num_binary_variables
                        /\ reductions[p] < ancilla)
    /\ [][IsPrefix(rmap, rmap')]_vars

C21_Witness ==
    /\ rmap = <<"0", "a", "1">>
    /\ Len(D) = 2
    /\ pc = "done"
    /\ ancilla = 4
    /\ reductions = (<<0, 1>> :> 3)

\* C24: to_qubo returns for every PUBO, whatever the order of its terms,
\* also when a term over the pair (x, y) comes after a term of higher
\* degree that registered (x, y): it never raises.
C24_NeverRaises == pc # "raised"

\* the weight lam(v) of the term to_qubo is working on
CurrentWeight == IF lam = 0 THEN 1 + Abs(D[ti][2]) ELSE lam

\* the change of the coefficient of Q at the key of the indices in S
Delta(S) == DictGet(Q', SortedInts(S)) - DictGet(Q, SortedInts(S))

\* the step replaces x and y by z in k
Substitutes(x, y, z) ==
    /\ x < y
    /\ z \notin Range(k)
    /\ Range(k') = (Range(k) \ {x, y}) \cup {z}
    /\ <<x, y>> \in DOMAIN reductions'
    /\ reductions'[<<x, y>>] = z

\* C25: penalties are not deduplicated.  Every reduction step, whether it
\* registers the pair (x, y) or finds it registered, adds 3 lam(v) at (z,)
\* and -2 lam(v) at (x, z) and at (y, z) for the term it reduces, and no
\* other step changes these three coefficients: at (z,) the output has 3
\* times the sum of lam(v) over the steps that used the pair, at (x, z) and
\* (y, z) -2 times that sum.
C25_PenaltyEveryUse ==
    [][InToQubo =>
          IF pc = "while" /\ Len(k) > 2
          THEN \E x, y \in Range(k) : \E z \in Range(k') :
                   /\ Substitutes(x, y, z)
                   /\ Delta({z}) = 3 * CurrentWeight
                   /\ Delta({x, z}) = -(2 * CurrentWeight)
                   /\ Delta({y, z}) = -(2 * CurrentWeight)
                   /\ \A p \in DOMAIN reductions \ {<<x, y>>} :
                          /\ Delta({reductions[p]}) = 0
                          /\ Delta({p[1], reductions[p]}) = 0
                          /\ Delta({p[2], reductions[p]}) = 0
          ELSE \A p \in DOMAIN reductions :
                   /\ Delta({reductions[p]}) = 0
                   /\ Delta({p[1], reductions[p]}) = 0
                   /\ Delta({p[2], reductions[p]}) = 0]_vars

\* two terms of three variables with coefficients 1 and -1 used the pair
\* (0, 1) with ancilla 4: 3 * (2 + 2) at (4,), -2 * (2 + 2) at (0, 4), (1, 4)
C25_Witness ==
    /\ pc = "done"
    /\ lam = 0
    /\ Len(D) = 2
    /\ Degree(1) = 3
    /\ Degree(2) = 3
    /\ D[1][2] + D[2][2] = 0
    /\ reductions = (<<0, 1>> :> 4)
    /\ DictGet(Q, <<4>>) = 12
    /\ DictGet(Q, <<0, 4>>) = -8
    /\ DictGet(Q, <<1, 4>>) = -8

\* PUBOs with one term: every key over the labels, with either coefficient
SingleTermPubos ==
    {<< <<SortedLabels(S), v>> >> : S \in SUBSET Labels, v \in Values}

\* PUBOs whose terms share a pair of variables: a pair registered by a term
\* of four variables and found by a term of three, and a term over a pair
\* that an earlier term registered
SharedPairPubos ==
    { << <<(<<"a", "0", "1", "2">>), 1>>, <<(<<"a", "0", "2">>), -1>> >>,
      << <<(<<"a", "0", "1">>), 1>>, <<(<<"a", "0">>), -1>> >> }

\* a PUBO whose last term holds two registered pairs: (0, 1), registered
\* second, and (1, 2), registered first
TwoPairsPubo ==
    << <<(<<"a">>), 1>>, <<(<<"0", "1", "2">>), 1>>,
       <<(<<"a", "0", "2">>), 1>>, <<(<<"a", "0", "1", "2">>), -1>> >>

RECURSIVE RmapOf(_, _)
\* the reverse mapping after the items d were assigned in order
RmapOf(rm, d) ==
    IF d = <<>> THEN rm ELSE RmapOf(AssignAll(rm, Head(d)[1]), Tail(d))

\* the PUBO d has been built
Built(d) ==
    /\ D = d
    /\ rmap = RmapOf(<<>>, d)
    /\ nacc = Len(d)
    /\ pc = "build"
    /\ lam = 0
    /\ ti = 0
    /\ k = <<>>
    /\ Q = EmptyDict
    /\ ancilla = 0
    /\ reductions = EmptyDict
    /\ P = EmptyDict
    /\ solution = <<>>
    /\ res = EmptyDict
    /\ ConvIdle

InitSeeded ==
    /\ \E d \in SingleTermPubos \cup SharedPairPubos \cup {TwoPairsPubo} : Built(d)
    /\ CallerIdle

\* to_qubo is called on it
NextSeeded ==
    \/ \E l \in 0..MaxLam : ToQuboCall(l)
    \/ TermRegistered
    \/ TermDirect
    \/ TermBegin
    \/ Reduce
    \/ TermEnd
    \/ Return

SpecSeeded == InitSeeded /\ [][NextSeeded]_vars

InitLive ==
    /\ \E d \in SingleTermPubos \cup SharedPairPubos : Built(d)
    /\ CallerIdle

\* to_qubo where a started iteration of the while loop, and the statement
\* after the loop, are eventually executed
SpecLive ==
    InitLive /\ [][NextSeeded]_vars /\ WF_vars(Reduce) /\ WF_vars(TermEnd)

RECURSIVE SumSeq(_)
SumSeq(s) == IF s = <<>> THEN 0 ELSE Head(s) + SumSeq(Tail(s))

\* the iterations of the while loop a term of degree d takes
Iterations(d) == IF d > 2 THEN d - 2 ELSE 0

\* the sum, over the terms of the PUBO, of the weight of the term times the
\* iterations it takes
WeightedIterations ==
    SumSeq([i \in 1..Len(D) |->
               Iterations(Degree(i)) * (IF lam = 0 THEN 1 + Abs(D[i][2]) ELSE lam)])

\* the sum of the coefficients of Q at the keys (z,) of the ancillas
AncillaDiagonal ==
    SumSeq([i \in 1..(ancilla - Len(rmap)) |-> DictGet(Q, <<Len(rmap) + i - 1>>)])

\* C28: the while loop of to_qubo terminates.  Every iteration removes two
\* indices from k and appends one ancilla that is not in k, so the length of
\* k goes down by one, from the degree d of the term to 2, where the loop
\* ends: d - 2 iterations, d - 2 penalty blocks and at most d - 2 ancillas
\* per term, one ancilla if the only term of degree above 2 has degree 3.
C28_ShrinkLoopTerminates ==
    /\ [](pc = "while" => (Len(k) >= 2 /\ Len(k) <= Degree(ti)))
    /\ [][(pc = "for" /\ pc' = "while") => Len(k') = Degree(ti)]_vars
    /\ [][(pc = "while" /\ Len(k) > 2) =>
              /\ pc' = "while"
              /\ Len(k') = Len(k) - 1
              /\ Cardinality(Range(k) \ Range(k')) = 2
              /\ Cardinality(Range(k') \ Range(k)) = 1
              /\ Range(k') \ Range(k) \subseteq Len(rmap)..ancilla
              /\ ancilla' \in {ancilla, ancilla + 1}]_vars
    /\ [][(pc = "while" /\ pc' = "for") => Len(k) = 2]_vars
    /\ [](pc = "done" =>
              /\ AncillaDiagonal = 3 * WeightedIterations
              /\ ancilla - Len(rmap)
                     <= SumSeq([i \in 1..Len(D) |-> Iterations(Degree(i))])
              /\ (\E i \in 1..Len(D) :
                      /\ Degree(i) = 3
                      /\ \A j \in 1..Len(D) : Degree(j) > 2 => j = i)
                     => ancilla = Len(rmap) + 1)
    /\ (pc = "while") ~> (pc = "for")

C28_Witness ==
    /\ pc = "done"
    /\ Len(D) = 2
    /\ Degree(1) = 4
    /\ Degree(2) = 3
    /\ ancilla - Len(rmap) = 2
    /\ SumSeq([i \in 1..Len(D) |-> Iterations(Degree(i))]) = 3

----------------------------------------------------------------------------
(* C29: penalty dominance with the default weighting.  When to_qubo,       *)
(* called with lam(v) = 1 + |v|, has returned Q, then at EVERY boolean     *)
(* assignment of the original and ancilla indices, whether the ancillas    *)
(* equal the products of their pairs or not, the value of Q is at least    *)
(* the value of the PUBO at the assignment restricted to the original      *)
(* indices, and the two are equal when every ancilla equals the product    *)
(* of its pair.                                                            *)
C29_PenaltyDominance ==
    (pc = "done" /\ lam = 0) =>
        \A s \in Assignments(ancilla, {0, 1}) :
            /\ Value(Q, s) >= PuboValue(D, Restricted(s))
            /\ Consistent(s) => Value(Q, s) = PuboValue(D, Restricted(s))

\* a returned QUBO with an ancilla, and an assignment that violates the
\* ancilla's constraint and pays for it
C29_Witness ==
    /\ pc = "done"
    /\ lam = 0
    /\ reductions # EmptyDict
    /\ \E s \in Assignments(ancilla, {0, 1}) :
           /\ ~Consistent(s)
           /\ Value(Q, s) > PuboValue(D, Restricted(s))

----------------------------------------------------------------------------
(* C26: pair selection in a reduction step.  When the current key k of     *)
(* more than two indices contains a registered pair, the step replaces     *)
(* the first registered pair in the scan order (first position ascending,  *)
(* then second position ascending) by its registered ancilla, and neither  *)
(* the counter nor the registry changes; when k contains no registered     *)
(* pair, the step replaces (k[1], k[2]) by the current counter value,      *)
(* registers the pair for it and increments the counter by exactly one.    *)
(* So the registered ancillas are n, n + 1, ... up to the counter, without *)
(* gaps.                                                                   *)
ScanPositions ==
    {ij \in (1..Len(k)) \X (1..Len(k)) :
        ij[1] < ij[2] /\ <<k[ij[1]], k[ij[2]]>> \in DOMAIN reductions}

ScanBefore(a, b) == a[1] < b[1] \/ (a[1] = b[1] /\ a[2] <= b[2])

----------------------------------------------------------------------------
(* Successive and interleaved calls of to_qubo.  A caller keeps the        *)
(* outcome of a finished call and may call again; a second thread calls    *)
(* to_qubo on a second instance, and the scheduler passes control between  *)
(* the two threads between any two steps.  Q, ancilla and reductions are   *)
(* locals of the call (lines 240-244), so each thread has its own.         *)

\* number of outcomes the callers keep
MaxKept == 2

\* the instance and the call of the running thread
Frame ==
    [D |-> D, rmap |-> rmap, nacc |-> nacc, pc |-> pc, lam |-> lam, ti |-> ti,
     k |-> k, Q |-> Q, ancilla |-> ancilla, reductions |-> reductions,
     mixed |-> mixed]

\* a thread that built the PUBO d
BuiltFrame(d) ==
    [NoFrame EXCEPT !.D = d, !.rmap = RmapOf(<<>>, d), !.nacc = Len(d),
                    !.pc = "build"]

\* what the caller of the finished call of f sees: the returned Q or the
\* exception, and whether the call ran without being suspended
OutcomeOf(f) ==
    [D |-> f.D, lam |-> f.lam, raised |-> (f.pc = "raised"),
     Q |-> IF f.pc = "done" THEN f.Q ELSE EmptyDict, alone |-> ~f.mixed]

\* the caller keeps the outcome; the instance can be used again
Keep ==
    /\ pc \in {"done", "raised"}
    /\ Len(kept) < MaxKept
    /\ kept' = Append(kept, OutcomeOf(Frame))
    /\ pc' = "build"
    /\ mixed' = FALSE
    /\ UNCHANGED <<D, rmap, nacc, lam, ti, k, Q, ancilla, reductions, P, solution, res>>
    /\ UNCHANGED <<cvars, other>>

\* a switch between threads that share the registry and the counter
SwitchShared ==
    /\ other.pc # "none"
    /\ other' = [Frame EXCEPT !.mixed = mixed \/ pc \in {"for", "while"}]
    /\ D' = other.D
    /\ rmap' = other.rmap
    /\ nacc' = other.nacc
    /\ pc' = other.pc
    /\ lam' = other.lam
    /\ ti' = other.ti
    /\ k' = other.k
    /\ Q' = other.Q
    /\ mixed' = other.mixed
    /\ UNCHANGED <<ancilla, reductions, P, solution, res, kept>>
    /\ UNCHANGED cvars

\* the running thread is suspended and the other one resumed, each with its
\* own instance and its own locals
Switch ==
    /\ other.pc # "none"
    /\ other' = [Frame EXCEPT !.mixed = mixed \/ pc \in {"for", "while"}]
    /\ D' = other.D
    /\ rmap' = other.rmap
    /\ nacc' = other.nacc
    /\ pc' = other.pc
    /\ lam' = other.lam
    /\ ti' = other.ti
    /\ k' = other.k
    /\ Q' = other.Q
    /\ ancilla' = other.ancilla
    /\ reductions' = other.reductions
    /\ mixed' = other.mixed
    /\ UNCHANGED <<P, solution, res, kept>>
    /\ UNCHANGED cvars

\* the PUBOs of the first thread: their terms share pairs
CallPubos == SharedPairPubos \cup {TwoPairsPubo}

InitCalls ==
    /\ \E d \in CallPubos : Built(d)
    /\ kept = <<>>
    /\ mixed = FALSE
    /\ other \in {NoFrame} \cup {BuiltFrame(d) : d \in SharedPairPubos}

NextCalls ==
    \/ NextSeeded
    \/ Keep
    \/ Switch

SpecCalls == InitCalls /\ [][NextCalls]_vars

\* the outcomes of the finished calls
Outcomes ==
    Range(kept) \cup {OutcomeOf(f) : f \in {g \in {Frame, other} : g.pc \in {"done", "raised"}}}

----------------------------------------------------------------------------
(* C22: fresh per-call reduction state.  Every to_qubo call starts with an *)
(* empty registry, an empty Q and a counter equal to n; and any two calls  *)
(* that ran one after the other on the same polynomial with the same lam   *)
(* have the same outcome, the same Q with the same ancilla numbering or    *)
(* the same exception, whatever calls were made before them.               *)
C22_FreshPerCall ==
    /\ [][(pc = "build" /\ pc' = "for" /\ other' = other) =>
            /\ reductions' = EmptyDict
            /\ Q' = EmptyDict
            /\ ancilla' = Len(rmap)]_vars
    /\ [](\A r1, r2 \in Outcomes :
            (r1.alone /\ r2.alone /\ r1.D = r2.D /\ r1.lam = r2.lam) => r1 = r2)

\* a second call returned what the first call on the same instance with the
\* same lam returned, a Q with two ancillas, after a call with another lam
C22_Witness ==
    /\ Len(kept) = 2
    /\ pc = "done"
    /\ ~mixed
    /\ kept[1].alone /\ kept[2].alone
    /\ kept[1].D = D /\ kept[2].D = D
    /\ kept[1].lam = lam /\ kept[2].lam # lam
    /\ kept[1].Q = Q
    /\ ancilla = Len(rmap) + 2
    /\ Cardinality(DOMAIN reductions) = 2

(* C23: independence of interleaved calls.  When two to_qubo calls on      *)
(* distinct instances are interleaved step by step in any order, each has  *)
(* the outcome of a call on the same polynomial with the same lam that ran *)
(* without being suspended.                                                *)
C23_InterleavedIndependent ==
    \A r1, r2 \in Outcomes :
        (r1.alone /\ ~r2.alone /\ r1.D = r2.D /\ r1.lam = r2.lam) =>
            /\ r1.raised = r2.raised
            /\ r1.Q = r2.Q

\* both threads were suspended in the middle of their calls and both minted
\* ancillas; the running thread's call returned what its earlier call on the
\* same instance, which ran alone, returned
C23_Witness ==
    /\ pc = "done"
    /\ mixed
    /\ ancilla > Len(rmap)
    /\ other.pc = "done"
    /\ other.mixed
    /\ other.ancilla > Len(other.rmap)
    /\ \E i \in 1..Len(kept) :
           /\ kept[i].alone
           /\ kept[i].D = D
           /\ kept[i].lam = lam
           /\ kept[i].Q = Q

====
